---- MODULE Spec2Model ----
(***************************************************************************)
(* Primal-dual covering, independent-set and matching algorithms of        *)
(* netlistx (cover.hpp, graph_algo.hpp, netlist_algo.hpp).                 *)
(*                                                                         *)
(* One behaviour is one call of one algorithm.  Init draws the algorithm   *)
(* and its arguments (graph or hypergraph, weight map, pre-seeded sets);   *)
(* every action is one iteration of a loop of the called function, or its  *)
(* closing assertion and return.                                           *)
(*                                                                         *)
(* A graph is its adjacency gr: node -> set of neighbours.  The order in   *)
(* which a container is enumerated (ugraph.edges(), ugraph[u], gr[net]) is *)
(* an input of the call: it is drawn when the container is enumerated.     *)
(***************************************************************************)
EXTENDS Integers, Sequences, FiniteSets, TLC

\* Bounds of the model
MaxNodes == 3      \* a plain graph has at most MaxNodes nodes
MaxWeight == 2     \* weights are drawn from 0 .. MaxWeight
MaxModules == 2    \* modules of a hypergraph
MaxNets == 2       \* nets of a hypergraph
MaxCycleNodes == 4 \* nodes of a graph handed to the cycle covers in SpecCycle

VARIABLES
    alg,               \* the function that was called
    gr,                \* ugraph / hyprgraph.gr : node -> set of adjacent nodes
    nets,              \* hyprgraph.nets (empty for a plain graph)
    weight,            \* the weight map
    gap,               \* auto gap = weight
    soln,              \* coverset / indset / matchset (in-out argument)
    dep,               \* the dependency set (in-out argument)
    total_prml_cost,
    total_dual_cost,
    violate_sets,      \* pd_cover: what violate() returned, not yet processed
    todo,              \* the elements the outer loop has not visited yet
    pc,                \* position in the called function
    soln0,             \* history: soln as passed by the caller
    dep0,              \* history: dep as passed by the caller
    prml_added,        \* history: the vertices inserted, in order
    srcs,              \* _generic_bfs_cycle: the sources not tried yet
    info,              \* _generic_bfs_cycle: node -> BFSInfo (parent, depth)
    queue,             \* _generic_bfs_cycle: the BFS queue
    witness,           \* cycles[0]: <<parent, child>> of the back edge found
    node_a, node_b,    \* _construct_cycle: the two walkers
    depth_a, depth_b,  \* _construct_cycle: their recorded depths
    cycle,             \* _construct_cycle: the deque S
    cover_set          \* the caller: the set an earlier call on the same graph returned

search == <<srcs, info, queue, witness, node_a, node_b, depth_a, depth_b, cycle>>

vars == <<alg, gr, nets, weight, gap, soln, dep, total_prml_cost, total_dual_cost,
          violate_sets, todo, pc, soln0, dep0, prml_added, search, cover_set>>

-----------------------------------------------------------------------------
\* Containers

Min(S) == CHOOSE x \in S : \A y \in S : x <= y

\* The orders in which a container holding the elements of S can be enumerated.
RECURSIVE Perms(_)
Perms(S) ==
    IF S = {} THEN {<<>>}
    ELSE UNION {{<<x>> \o p : p \in Perms(S \ {x})} : x \in S}

\* Enumeration in increasing id order (py::range, array-backed adjacency).
RECURSIVE Ascending(_)
Ascending(S) ==
    IF S = {} THEN <<>> ELSE <<Min(S)>> \o Ascending(S \ {Min(S)})

Range(s) == {s[i] : i \in 1..Len(s)}

\* ugraph.edges(): the edges of a simple graph, each an unordered pair.
Edges(g) == UNION {{{u, v} : v \in g[u]} : u \in DOMAIN g}

\* TestGraph(n, edges): the adjacency built from an edge set.
GraphOf(N, E) == [u \in N |-> {v \in N : {u, v} \in E /\ u # v}]

\* Netlist(gr, numModules, numNets): modules 0..m-1, nets m..m+k-1, gr bipartite.
NetlistOf(m, k, members) ==
    [x \in 0..(m + k - 1) |->
        IF x < m THEN {n \in m..(m + k - 1) : x \in members[n]}
        ELSE members[x]]

-----------------------------------------------------------------------------
\* cover.hpp: pd_cover

\* The scan with the comparison turned: gap[v1] > gap[v2] (the largest gap).
RECURSIVE max_element(_, _, _, _)
max_element(S, g, i, best) ==
    IF i > Len(S) THEN best
    ELSE max_element(S, g, i + 1, IF g[S[i]] > g[S[best]] THEN i ELSE best)

\* The scan with the comparison !(gap[v2] < gap[v1]): among equal gaps the last
\* element wins.
RECURSIVE min_element_last(_, _, _, _)
min_element_last(S, g, i, best) ==
    IF i > Len(S) THEN best
    ELSE min_element_last(S, g, i + 1, IF g[S[i]] <= g[S[best]] THEN i ELSE best)

\* py::dict::operator[] on a map that is not const, for the handles K: a handle
\* without an entry gets one, value-initialised (the tests fill their weight maps
\* through it: weight[0] = 1 on an empty map).
Touch(m, K) == [k \in DOMAIN m \cup K |-> IF k \in DOMAIN m THEN m[k] ELSE 0]

\* std::min_element(S.begin(), S.end(), gap[v1] < gap[v2]): the index of the
\* first element of S whose gap is smallest; i scans, best is the smallest so far.
RECURSIVE min_element(_, _, _, _)
min_element(S, g, i, best) ==
    IF i > Len(S) THEN best
    ELSE min_element(S, g, i + 1, IF g[S[i]] < g[S[best]] THEN i ELSE best)

\* The update with the sign turned: for (vtx : S) gap[vtx] += min_val;
RECURSIVE AddAll(_, _, _)
AddAll(g, S, min_val) ==
    IF S = <<>> THEN g
    ELSE AddAll([g EXCEPT ![Head(S)] = @ + min_val], Tail(S), min_val)

\* for (vtx : S) gap[vtx] -= min_val;
RECURSIVE SubtractAll(_, _, _)
SubtractAll(g, S, min_val) ==
    IF S = <<>> THEN g
    ELSE SubtractAll([g EXCEPT ![Head(S)] = @ - min_val], Tail(S), min_val)

\* assert(total_dual_cost <= total_prml_cost); return ...
AssertDuality(dual, prml) == IF dual <= prml THEN "done" ELSE "assert_failed"

\* The producer with the test at l.90 negated: it lists the covered edges.
violate_graph_covered ==
    LET E == {e \in Edges(gr) : e \cap soln # {}}
    IN  [e \in E |-> Perms(e)]

\* min_vertex_cover's violate_graph: the edges with no endpoint in coverset.
\* Each entry is the set of orders {utx, vtx} can have been pushed in.
violate_graph ==
    LET E == {e \in Edges(gr) : e \cap soln = {}}
    IN  [e \in E |-> Perms(e)]

\* The producer with `covered` declared outside the loop over the nets: once a
\* net is found covered, every later net counts as covered.
violate_netlist_sticky ==
    LET N == {net \in nets : \A n2 \in nets : n2 <= net => gr[n2] \cap soln = {}}
    IN  [net \in N |-> Perms(gr[net])]

\* min_hyper_vertex_cover's violate_netlist: the nets with no member in coverset,
\* each as the vector of its members (empty for a net without members).
violate_netlist ==
    LET N == {net \in nets : gr[net] \cap soln = {}}
    IN  [net \in N |-> Perms(gr[net])]

\* auto S : violate() -- the producer is called once, before the loop.
Violate ==
    /\ pc = "violate"
    /\ alg \in {"min_vertex_cover", "min_hyper_vertex_cover"}
    /\ violate_sets' = IF alg = "min_vertex_cover" THEN violate_graph
                       ELSE violate_netlist
    /\ pc' = "pd_cover"
    /\ UNCHANGED <<search, cover_set, alg, gr, nets, weight, gap, soln, dep, total_prml_cost,
                   total_dual_cost, todo, soln0, dep0, prml_added>>

\* One iteration of pd_cover's loop over the violate sets.
\* Edges are enumerated in any order; nets in the order of hyprgraph.nets.
NextViolate ==
    IF alg = "min_hyper_vertex_cover" THEN {Min(DOMAIN violate_sets)}
    ELSE DOMAIN violate_sets

PdCoverStep ==
    /\ pc = "pd_cover"
    /\ DOMAIN violate_sets # {}
    /\ \E id \in NextViolate : \E S \in violate_sets[id] :
          /\ violate_sets' = [x \in (DOMAIN violate_sets) \ {id} |-> violate_sets[x]]
          /\ IF S = <<>>
             THEN UNCHANGED <<gap, weight, soln, total_prml_cost, total_dual_cost,
                              prml_added>>
             ELSE LET g == Touch(gap, Range(S))           \* gap[v1], gap[vtx]
                      min_vtx == S[min_element(S, g, 2, 1)]
                      min_val == g[min_vtx]
                      w == Touch(weight, {min_vtx})       \* weight[min_vtx]
                  IN  /\ soln' = soln \cup {min_vtx}
                      /\ total_prml_cost' = total_prml_cost + w[min_vtx]
                      /\ total_dual_cost' = total_dual_cost + min_val
                      /\ gap' = SubtractAll(g, S, min_val)
                      /\ weight' = w
                      /\ prml_added' = Append(prml_added, min_vtx)
    /\ UNCHANGED <<search, cover_set, alg, gr, nets, dep, todo, pc, soln0, dep0>>

\* The return with the producer kept alive, as a generator would be: when the
\* sets are used up and the last search built a cycle, the search runs again.
PdCoverReturnResume ==
    /\ pc = "pd_cover"
    /\ DOMAIN violate_sets = {}
    /\ IF cycle # <<>>
       THEN /\ pc' = "violate"
            /\ cycle' = <<>>
            /\ witness' = <<>>
       ELSE /\ pc' = AssertDuality(total_dual_cost, total_prml_cost)
            /\ UNCHANGED <<cycle, witness>>
    /\ UNCHANGED <<cover_set, alg, gr, nets, weight, gap, soln, dep, total_prml_cost,
                   total_dual_cost, violate_sets, todo, soln0, dep0, prml_added,
                   srcs, info, queue, node_a, node_b, depth_a, depth_b>>

PdCoverReturn ==
    /\ pc = "pd_cover"
    /\ DOMAIN violate_sets = {}
    /\ pc' = AssertDuality(total_dual_cost, total_prml_cost)
    /\ UNCHANGED <<search, cover_set, alg, gr, nets, weight, gap, soln, dep, total_prml_cost,
                   total_dual_cost, violate_sets, todo, soln0, dep0, prml_added>>

-----------------------------------------------------------------------------
\* cover.hpp: _generic_bfs_cycle, _construct_cycle, min_cycle_cover,
\* min_odd_cycle_cover

BFSInfo(p, d) == [parent |-> p, depth |-> d]

\* The seed one short: depth_limit = number_of_nodes() - 1
depth_limit_short == Cardinality(DOMAIN gr) - 1

\* int depth_limit = static_cast<int>(ugraph.number_of_nodes());
depth_limit == Cardinality(DOMAIN gr)

\* The scan with the test of l.300 widened to every visited child:
\* if (info.contains(child)) continue;
RECURSIVE ScanChildrenTreeOnly(_, _, _, _, _, _)
ScanChildrenTreeOnly(children, parent, succ, depth_now, inf, q) ==
    IF children = <<>>
    THEN [info |-> inf, queue |-> q, found |-> FALSE, child |-> parent]
    ELSE LET child == Head(children)
         IN  IF child \in soln \/ child \in DOMAIN inf
             THEN ScanChildrenTreeOnly(Tail(children), parent, succ, depth_now,
                                       inf, q)
             ELSE ScanChildrenTreeOnly(Tail(children), parent, succ, depth_now,
                                       inf @@ (child :> BFSInfo(parent, depth_now - 1)),
                                       Append(q, child))

\* for (child : ugraph[parent]) { ... }: the info table and the queue after the
\* children were looked at, and the child that closes a cycle when one was found.
RECURSIVE ScanChildren(_, _, _, _, _, _)
ScanChildren(children, parent, succ, depth_now, inf, q) ==
    IF children = <<>>
    THEN [info |-> inf, queue |-> q, found |-> FALSE, child |-> parent]
    ELSE LET child == Head(children)
         IN  IF child \in soln                     \* coverset.contains(child)
             THEN ScanChildren(Tail(children), parent, succ, depth_now, inf, q)
             ELSE IF child \notin DOMAIN inf
             THEN ScanChildren(Tail(children), parent, succ, depth_now,
                               inf @@ (child :> BFSInfo(parent, depth_now - 1)),
                               Append(q, child))
             ELSE IF succ = child
             THEN ScanChildren(Tail(children), parent, succ, depth_now, inf, q)
             ELSE [info |-> inf, queue |-> q, found |-> TRUE, child |-> child]

\* The violate lambda of min_cycle_cover / min_odd_cycle_cover calls
\* _generic_bfs_cycle(ugraph, coverset).
ViolateCycle ==
    /\ pc = "violate"
    /\ alg \in {"min_cycle_cover", "min_odd_cycle_cover"}
    /\ srcs' = DOMAIN gr
    /\ queue' = <<>>
    /\ pc' = "bfs"
    /\ UNCHANGED <<cover_set, alg, gr, nets, weight, gap, soln, dep, total_prml_cost,
                   total_dual_cost, violate_sets, todo, soln0, dep0, prml_added,
                   info, witness, node_a, node_b, depth_a, depth_b, cycle>>

\* for (source : ugraph): the next source starts a fresh info table and queue.
BfsSource ==
    /\ pc = "bfs"
    /\ queue = <<>>
    /\ srcs # {}
    /\ LET source == Min(srcs)
       IN  /\ srcs' = srcs \ {source}
           /\ IF source \in soln
              THEN UNCHANGED <<info, queue>>
              ELSE /\ info' = (source :> BFSInfo(source, depth_limit))
                   /\ queue' = <<source>>
    /\ UNCHANGED <<cover_set, alg, gr, nets, weight, gap, soln, dep, total_prml_cost,
                   total_dual_cost, violate_sets, todo, pc, soln0, dep0, prml_added,
                   witness, node_a, node_b, depth_a, depth_b, cycle>>

\* The visit without queue.pop(): the parent stays at the front of the queue.
BfsVisitNoPop ==
    /\ pc = "bfs"
    /\ queue # <<>>
    /\ LET parent == Head(queue)
           succ == info[parent].parent
           depth_now == info[parent].depth
       IN  \E children \in Perms(gr[parent]) :
             LET r == ScanChildren(children, parent, succ, depth_now, info, queue)
             IN  /\ info' = r.info
                 /\ queue' = r.queue
                 /\ IF r.found
                    THEN /\ witness' = <<parent, r.child>>
                         /\ pc' = "cycle_found"
                    ELSE UNCHANGED <<witness, pc>>
    /\ UNCHANGED <<cover_set, alg, gr, nets, weight, gap, soln, dep, total_prml_cost,
                   total_dual_cost, violate_sets, todo, soln0, dep0, prml_added,
                   srcs, node_a, node_b, depth_a, depth_b, cycle>>

\* while (!queue.empty()): one parent is taken off the queue and its children scanned.
BfsVisit ==
    /\ pc = "bfs"
    /\ queue # <<>>
    /\ LET parent == Head(queue)
           succ == info[parent].parent
           depth_now == info[parent].depth
       IN  \E children \in Perms(gr[parent]) :
             LET r == ScanChildren(children, parent, succ, depth_now, info,
                                   Tail(queue))
             IN  /\ info' = r.info
                 /\ queue' = r.queue
                 /\ IF r.found
                    THEN /\ witness' = <<parent, r.child>>
                         /\ pc' = "cycle_found"
                    ELSE UNCHANGED <<witness, pc>>
    /\ UNCHANGED <<cover_set, alg, gr, nets, weight, gap, soln, dep, total_prml_cost,
                   total_dual_cost, violate_sets, todo, soln0, dep0, prml_added,
                   srcs, node_a, node_b, depth_a, depth_b, cycle>>

\* return cycles;  (empty: no source is left)  -- the lambda returns no violate set.
BfsNoCycle ==
    /\ pc = "bfs"
    /\ queue = <<>>
    /\ srcs = {}
    /\ violate_sets' = <<>>
    /\ pc' = "pd_cover"
    /\ UNCHANGED <<search, cover_set, alg, gr, nets, weight, gap, soln, dep, total_prml_cost,
                   total_dual_cost, todo, soln0, dep0, prml_added>>

\* The parity test negated: (info_parent.depth - info_child.depth) % 2 != 0
IsEvenWitness(inf, parent, child) ==
    (inf[parent].depth - inf[child].depth) % 2 # 0

\* min_odd_cycle_cover: if ((info_parent.depth - info_child.depth) % 2 == 0)
IsOddWitness(inf, parent, child) ==
    (inf[parent].depth - inf[child].depth) % 2 = 0

\* _construct_cycle(info, parent, child), up to the first loop.
ConstructStart ==
    /\ pc = "cycle_found"
    /\ LET parent == witness[1]
           child == witness[2]
       IN  IF alg = "min_odd_cycle_cover" /\ ~IsOddWitness(info, parent, child)
           THEN /\ violate_sets' = <<>>
                /\ pc' = "pd_cover"
                /\ UNCHANGED <<node_a, node_b, depth_a, depth_b, cycle>>
           ELSE /\ IF info[parent].depth < info[child].depth
                   THEN /\ node_a' = parent
                        /\ depth_a' = info[parent].depth
                        /\ node_b' = child
                        /\ depth_b' = info[child].depth
                   ELSE /\ node_a' = child
                        /\ depth_a' = info[child].depth
                        /\ node_b' = parent
                        /\ depth_b' = info[parent].depth
                /\ cycle' = <<>>
                /\ pc' = "construct_up"
                /\ UNCHANGED violate_sets
    /\ UNCHANGED <<cover_set, alg, gr, nets, weight, gap, soln, dep, total_prml_cost,
                   total_dual_cost, todo, soln0, dep0, prml_added,
                   srcs, info, queue, witness>>

\* while (depth_a < depth_b) { S.push_back(node_a); next_info = info.at(node_a);
\*                             node_a = next_info.parent; depth_a = next_info.depth; }
ConstructUp ==
    /\ pc = "construct_up"
    /\ IF depth_a < depth_b
       THEN /\ cycle' = Append(cycle, node_a)
            /\ node_a' = info[node_a].parent
            /\ depth_a' = info[node_a].depth
            /\ UNCHANGED pc
       ELSE /\ pc' = "construct_meet"
            /\ UNCHANGED <<cycle, node_a, depth_a>>
    /\ UNCHANGED <<cover_set, alg, gr, nets, weight, gap, soln, dep, total_prml_cost,
                   total_dual_cost, violate_sets, todo, soln0, dep0, prml_added,
                   srcs, info, queue, witness, node_b, depth_b>>

\* while (node_a != node_b) { S.push_back(node_a); S.push_front(node_b); both go up }
\* S.push_front(node_b); return S;  -- the lambda returns this one violate set.
ConstructMeet ==
    /\ pc = "construct_meet"
    /\ IF node_a # node_b
       THEN /\ cycle' = <<node_b>> \o Append(cycle, node_a)
            /\ node_a' = info[node_a].parent
            /\ node_b' = info[node_b].parent
            /\ UNCHANGED <<violate_sets, pc>>
       ELSE /\ cycle' = <<node_b>> \o cycle
            /\ violate_sets' = (0 :> {cycle'})
            /\ pc' = "pd_cover"
            /\ UNCHANGED <<node_a, node_b>>
    /\ UNCHANGED <<cover_set, alg, gr, nets, weight, gap, soln, dep, total_prml_cost,
                   total_dual_cost, todo, soln0, dep0, prml_added,
                   srcs, info, queue, witness, depth_a, depth_b>>

-----------------------------------------------------------------------------
\* graph_algo.hpp: min_vertex_cover_fast

\* The test with && in place of ||.
edge_covered_both(s, utx, vtx) == utx \in s /\ vtx \in s

\* if (coverset.contains(utx) || coverset.contains(vtx)) continue;
edge_covered(s, utx, vtx) == utx \in s \/ vtx \in s

\* The pass with break in place of continue at l.41.
FastStepBreak ==
    /\ pc = "min_vertex_cover_fast"
    /\ \E edge \in todo : \E e \in Perms(edge) :
          IF edge_covered(soln, e[1], e[2])
          THEN /\ todo' = {}
               /\ UNCHANGED <<gap, weight, soln, total_prml_cost, total_dual_cost,
                               prml_added>>
          ELSE LET g == Touch(gap, edge)
                   swap == g[e[1]] < g[e[2]]
                   utx == IF swap THEN e[2] ELSE e[1]
                   vtx == IF swap THEN e[1] ELSE e[2]
                   w == Touch(weight, {vtx})
               IN  /\ todo' = todo \ {edge}
                   /\ soln' = soln \cup {vtx}
                   /\ total_dual_cost' = total_dual_cost + g[vtx]
                   /\ total_prml_cost' = total_prml_cost + w[vtx]
                   /\ gap' = [g EXCEPT ![utx] = @ - g[vtx], ![vtx] = 0]
                   /\ weight' = w
                   /\ prml_added' = Append(prml_added, vtx)
    /\ UNCHANGED <<search, cover_set, alg, gr, nets, dep, violate_sets, pc, soln0, dep0>>

\* The step without gap[utx] -= gap[vtx]: the other endpoint is not charged.
FastStepNoCharge ==
    /\ pc = "min_vertex_cover_fast"
    /\ \E edge \in todo : \E e \in Perms(edge) :
          /\ todo' = todo \ {edge}
          /\ IF edge_covered(soln, e[1], e[2])
             THEN UNCHANGED <<gap, weight, soln, total_prml_cost, total_dual_cost,
                              prml_added>>
             ELSE LET g == Touch(gap, edge)                \* gap[utx] < gap[vtx]
                      swap == g[e[1]] < g[e[2]]
                      utx == IF swap THEN e[2] ELSE e[1]
                      vtx == IF swap THEN e[1] ELSE e[2]
                      w == Touch(weight, {vtx})            \* weight[vtx]
                  IN  /\ soln' = soln \cup {vtx}
                      /\ total_dual_cost' = total_dual_cost + g[vtx]
                      /\ total_prml_cost' = total_prml_cost + w[vtx]
                      /\ gap' = [g EXCEPT ![vtx] = 0]
                      /\ weight' = w
                      /\ prml_added' = Append(prml_added, vtx)
    /\ UNCHANGED <<search, cover_set, alg, gr, nets, dep, violate_sets, pc, soln0, dep0>>

FastStep ==
    /\ pc = "min_vertex_cover_fast"
    /\ \E edge \in todo : \E e \in Perms(edge) :
          /\ todo' = todo \ {edge}
          /\ IF edge_covered(soln, e[1], e[2])
             THEN UNCHANGED <<gap, weight, soln, total_prml_cost, total_dual_cost,
                              prml_added>>
             ELSE LET g == Touch(gap, edge)                \* gap[utx] < gap[vtx]
                      swap == g[e[1]] < g[e[2]]
                      utx == IF swap THEN e[2] ELSE e[1]
                      vtx == IF swap THEN e[1] ELSE e[2]
                      w == Touch(weight, {vtx})            \* weight[vtx]
                  IN  /\ soln' = soln \cup {vtx}
                      /\ total_dual_cost' = total_dual_cost + g[vtx]
                      /\ total_prml_cost' = total_prml_cost + w[vtx]
                      /\ gap' = [g EXCEPT ![utx] = @ - g[vtx], ![vtx] = 0]
                      /\ weight' = w
                      /\ prml_added' = Append(prml_added, vtx)
    /\ UNCHANGED <<search, cover_set, alg, gr, nets, dep, violate_sets, pc, soln0, dep0>>

FastReturn ==
    /\ pc = "min_vertex_cover_fast"
    /\ todo = {}
    /\ pc' = AssertDuality(total_dual_cost, total_prml_cost)
    /\ UNCHANGED <<search, cover_set, alg, gr, nets, weight, gap, soln, dep, total_prml_cost,
                   total_dual_cost, violate_sets, todo, soln0, dep0, prml_added>>

-----------------------------------------------------------------------------
\* graph_algo.hpp: min_maximal_independant_set

\* The scan without the test dep.contains(vtx) of l.122.
RECURSIVE FindMinNeighborAny(_, _, _, _, _)
FindMinNeighborAny(nbrs, g, d, min_val, min_vtx) ==
    IF nbrs = <<>> THEN [min_val |-> min_val, min_vtx |-> min_vtx]
    ELSE LET vtx == Head(nbrs)
         IN  IF min_val > g[vtx]
             THEN FindMinNeighborAny(Tail(nbrs), g, d, g[vtx], vtx)
             ELSE FindMinNeighborAny(Tail(nbrs), g, d, min_val, min_vtx)

\* The scan for the minimum gap among the neighbours that are not dependent:
\* the record <<min_val, min_vtx>> after the vertices of nbrs were looked at.
RECURSIVE FindMinNeighbor(_, _, _, _, _)
FindMinNeighbor(nbrs, g, d, min_val, min_vtx) ==
    IF nbrs = <<>> THEN [min_val |-> min_val, min_vtx |-> min_vtx]
    ELSE LET vtx == Head(nbrs)
         IN  IF vtx \in d
             THEN FindMinNeighbor(Tail(nbrs), g, d, min_val, min_vtx)
             ELSE IF min_val > g[vtx]
                  THEN FindMinNeighbor(Tail(nbrs), g, d, g[vtx], vtx)
                  ELSE FindMinNeighbor(Tail(nbrs), g, d, min_val, min_vtx)

\* The coverset lambda: dep.insert(utx); for (vtx : ugraph[utx]) dep.insert(vtx);
coverset(d, utx) == d \cup {utx} \cup gr[utx]

\* The body with `if (min_vtx == utx) continue;` of l.136 moved up, before the
\* insertion of l.131.
MisSelectOther(utx, nbrs) ==
    LET m == FindMinNeighbor(nbrs, gap, dep, gap[utx], utx)
    IN  IF m.min_vtx = utx
        THEN UNCHANGED <<gap, soln, dep, total_prml_cost, total_dual_cost,
                         prml_added>>
        ELSE /\ soln' = soln \cup {m.min_vtx}
             /\ dep' = coverset(dep, m.min_vtx)
             /\ total_prml_cost' = total_prml_cost + weight[m.min_vtx]
             /\ total_dual_cost' = total_dual_cost + m.min_val
             /\ gap' = SubtractAll(gap, nbrs, m.min_val)
             /\ prml_added' = Append(prml_added, m.min_vtx)

\* The body of the loop for a vertex utx that is neither dependent nor
\* pre-defined, nbrs being ugraph[utx] as enumerated.
MisSelect(utx, nbrs) ==
    LET m == FindMinNeighbor(nbrs, gap, dep, gap[utx], utx)
    IN  /\ soln' = soln \cup {m.min_vtx}
        /\ dep' = coverset(dep, m.min_vtx)
        /\ total_prml_cost' = total_prml_cost + weight[m.min_vtx]
        /\ total_dual_cost' = total_dual_cost + m.min_val
        /\ gap' = IF m.min_vtx = utx THEN gap
                  ELSE SubtractAll(gap, nbrs, m.min_val)
        /\ prml_added' = Append(prml_added, m.min_vtx)

\* The loop with break in place of continue at l.111.
MisStepBreak ==
    /\ pc = "min_maximal_independant_set"
    /\ todo # {}
    /\ LET utx == Min(todo)
       IN  IF utx \in dep
           THEN /\ todo' = {}
                /\ UNCHANGED <<gap, soln, dep, total_prml_cost, total_dual_cost,
                                prml_added>>
           ELSE /\ todo' = todo \ {utx}
                /\ IF utx \in soln
                   THEN UNCHANGED <<gap, soln, dep, total_prml_cost, total_dual_cost,
                                    prml_added>>
                   ELSE \E nbrs \in Perms(gr[utx]) : MisSelect(utx, nbrs)
    /\ UNCHANGED <<search, cover_set, alg, gr, nets, weight, violate_sets, pc, soln0, dep0>>

MisStep ==
    /\ pc = "min_maximal_independant_set"
    /\ todo # {}
    /\ LET utx == Min(todo)
       IN  /\ todo' = todo \ {utx}
           /\ IF utx \in dep
              THEN UNCHANGED <<gap, soln, dep, total_prml_cost, total_dual_cost,
                               prml_added>>
              ELSE IF utx \in soln       \* pre-defined independent: continue
              THEN UNCHANGED <<gap, soln, dep, total_prml_cost, total_dual_cost,
                               prml_added>>
              ELSE \E nbrs \in Perms(gr[utx]) : MisSelect(utx, nbrs)
    /\ UNCHANGED <<search, cover_set, alg, gr, nets, weight, violate_sets, pc, soln0, dep0>>

MisReturn ==
    /\ pc = "min_maximal_independant_set"
    /\ todo = {}
    /\ pc' = AssertDuality(total_dual_cost, total_prml_cost)
    /\ UNCHANGED <<search, cover_set, alg, gr, nets, weight, gap, soln, dep, total_prml_cost,
                   total_dual_cost, violate_sets, todo, soln0, dep0, prml_added>>

-----------------------------------------------------------------------------
\* netlist_algo.hpp: min_vertex_cover (hypergraph, one pass over the nets)

NetCoverStep ==
    /\ pc = "netlist_min_vertex_cover"
    /\ todo # {}
    /\ LET net == Min(todo)
       IN  /\ todo' = todo \ {net}
           /\ IF gr[net] \cap soln # {}           \* any_of(..., in_coverset)
              THEN UNCHANGED <<gap, soln, total_prml_cost, total_dual_cost,
                               prml_added, pc>>
              ELSE IF gr[net] = {}
              \* *std::min_element(begin, end) of an empty range dereferences
              \* end(): undefined.  The call faults, or goes on with whatever
              \* handle was read.
              THEN \/ /\ pc' = "fault"
                      /\ UNCHANGED <<gap, soln, total_prml_cost, total_dual_cost,
                                      prml_added>>
                   \/ \E min_vtx \in DOMAIN weight :
                        /\ soln' = soln \cup {min_vtx}
                        /\ total_prml_cost' = total_prml_cost + weight[min_vtx]
                        /\ total_dual_cost' = total_dual_cost + gap[min_vtx]
                        /\ prml_added' = Append(prml_added, min_vtx)
                        /\ UNCHANGED <<gap, pc>>
              ELSE \E S \in Perms(gr[net]) :
                     LET min_vtx == S[min_element(S, gap, 2, 1)]
                         min_val == gap[min_vtx]
                     IN  /\ soln' = soln \cup {min_vtx}
                         /\ total_prml_cost' = total_prml_cost + weight[min_vtx]
                         /\ total_dual_cost' = total_dual_cost + min_val
                         /\ gap' = SubtractAll(gap, S, min_val)
                         /\ prml_added' = Append(prml_added, min_vtx)
                         /\ UNCHANGED pc
    /\ UNCHANGED <<search, cover_set, alg, gr, nets, weight, dep, violate_sets, soln0, dep0>>

NetCoverReturn ==
    /\ pc = "netlist_min_vertex_cover"
    /\ todo = {}
    /\ pc' = AssertDuality(total_dual_cost, total_prml_cost)
    /\ UNCHANGED <<search, cover_set, alg, gr, nets, weight, gap, soln, dep, total_prml_cost,
                   total_dual_cost, violate_sets, todo, soln0, dep0, prml_added>>

-----------------------------------------------------------------------------
\* netlist_algo.hpp: min_maximal_matching

\* The test with std::all_of in place of std::any_of: a net counts as dependent
\* only when every member is.
all_of_dep(net, d) == gr[net] # {} /\ gr[net] \subseteq d

\* std::any_of(gr[net].begin(), gr[net].end(), in_dep)
any_of_dep(net, d) == gr[net] \cap d # {}

\* for (v : gr[net]) for (net2 : gr[v]) ... : the nets net2 in the order the
\* two nested loops meet them, a net once for every member it shares with net.
RECURSIVE Concat(_)
Concat(ss) == IF ss = <<>> THEN <<>> ELSE Head(ss) \o Concat(Tail(ss))

NestedNets(net) ==
    LET vs == Ascending(gr[net])
    IN  Concat([i \in 1..Len(vs) |-> Ascending(gr[vs[i]])])

\* The scan for the net of minimum gap among the nets met, dependent ones skipped.
RECURSIVE FindMinNet(_, _, _, _, _)
FindMinNet(net2s, g, d, min_val, min_net) ==
    IF net2s = <<>> THEN [min_val |-> min_val, min_net |-> min_net]
    ELSE LET net2 == Head(net2s)
         IN  IF any_of_dep(net2, d)
             THEN FindMinNet(Tail(net2s), g, d, min_val, min_net)
             ELSE IF min_val > g[net2]
                  THEN FindMinNet(Tail(net2s), g, d, g[net2], net2)
                  ELSE FindMinNet(Tail(net2s), g, d, min_val, min_net)

\* if (min_net != net) { gap[net] -= min_val; for v, for net2: gap[net2] -= min_val; }
MatchingGapUpdate(g, net, min_val) ==
    SubtractAll([g EXCEPT ![net] = @ - min_val], NestedNets(net), min_val)

MatchStep ==
    /\ pc = "min_maximal_matching"
    /\ todo # {}
    /\ LET net == Min(todo)
       IN  /\ todo' = todo \ {net}
           /\ IF any_of_dep(net, dep)
              THEN UNCHANGED <<gap, soln, dep, total_prml_cost, total_dual_cost,
                               prml_added>>
              ELSE IF net \in soln               \* pre-defined: cover(net); continue
              THEN /\ dep' = dep \cup gr[net]
                   /\ UNCHANGED <<gap, soln, total_prml_cost, total_dual_cost,
                                   prml_added>>
              ELSE LET m == FindMinNet(NestedNets(net), gap, dep, gap[net], net)
                   IN  /\ dep' = dep \cup gr[m.min_net]         \* cover(min_net)
                       /\ soln' = soln \cup {m.min_net}
                       /\ total_prml_cost' = total_prml_cost + weight[m.min_net]
                       /\ total_dual_cost' = total_dual_cost + m.min_val
                       /\ gap' = IF m.min_net # net
                                 THEN MatchingGapUpdate(gap, net, m.min_val)
                                 ELSE gap
                       /\ prml_added' = Append(prml_added, m.min_net)
    /\ UNCHANGED <<search, cover_set, alg, gr, nets, weight, violate_sets, pc, soln0, dep0>>

\* // assert(total_dual_cost <= total_primal_cost);   (commented out)
MatchReturn ==
    /\ pc = "min_maximal_matching"
    /\ todo = {}
    /\ pc' = "done"
    /\ UNCHANGED <<search, cover_set, alg, gr, nets, weight, gap, soln, dep, total_prml_cost,
                   total_dual_cost, violate_sets, todo, soln0, dep0, prml_added>>

-----------------------------------------------------------------------------
\* The calls

Weights(K) == [K -> 0..MaxWeight]

Start(a, g, ns, w, s, d, t, p) ==
    /\ alg = a
    /\ gr = g
    /\ nets = ns
    /\ weight = w
    /\ gap = w
    /\ soln = s
    /\ soln0 = s
    /\ dep = d
    /\ dep0 = d
    /\ total_prml_cost = 0
    /\ total_dual_cost = 0
    /\ violate_sets = <<>>
    /\ todo = t
    /\ pc = p
    /\ prml_added = <<>>
    /\ srcs = {}
    /\ info = <<>>
    /\ queue = <<>>
    /\ witness = <<>>
    /\ node_a = 0
    /\ node_b = 0
    /\ depth_a = 0
    /\ depth_b = 0
    /\ cycle = <<>>
    /\ cover_set = {}

\* A simple graph on the nodes 0..n-1.
SimpleGraphs(n) ==
    {GraphOf(0..(n - 1), E) :
        E \in SUBSET {e \in SUBSET (0..(n - 1)) : Cardinality(e) = 2}}

\* A netlist of MaxModules modules and MaxNets nets.
Modules == 0..(MaxModules - 1)
NetIds == MaxModules..(MaxModules + MaxNets - 1)
Netlists == {NetlistOf(MaxModules, MaxNets, mem) : mem \in [NetIds -> SUBSET Modules]}

\* The largest netlist min_maximal_matching is called with in SpecMatching: six
\* modules 0..5 and five nets 6..10, net 5 + i joining the modules MatchingFrame[i].
\* The other netlists of SpecMatching cut nets of this one short.
MatchingFrame == <<{0, 1, 2}, {0}, {2, 3, 4, 5}, {1, 2}, {3, 4, 5}>>
FrameModules == UNION Range(MatchingFrame)
FrameNetIds == {Cardinality(FrameModules) + i - 1 : i \in DOMAIN MatchingFrame}
CutShort(S) == {{x \in S : x < k} : k \in S} \cup {S}
FrameNetlist(mem) ==
    NetlistOf(Cardinality(FrameModules), Len(MatchingFrame),
              [n \in FrameNetIds |-> mem[n - Cardinality(FrameModules) + 1]])

InitVertexCover ==
    \E n \in 0..MaxNodes : \E g \in SimpleGraphs(n) :
    \E w \in Weights(0..(n - 1)) : \E coverset0 \in SUBSET (0..(n - 1)) :
       Start("min_vertex_cover", g, {}, w, coverset0, {}, {}, "violate")

InitCycleCover ==
    \E n \in 0..MaxNodes : \E g \in SimpleGraphs(n) :
    \E w \in Weights(0..(n - 1)) : \E coverset0 \in SUBSET (0..(n - 1)) :
       Start("min_cycle_cover", g, {}, w, coverset0, {}, {}, "violate")

InitOddCycleCover ==
    \E n \in 0..MaxNodes : \E g \in SimpleGraphs(n) :
    \E w \in Weights(0..(n - 1)) : \E coverset0 \in SUBSET (0..(n - 1)) :
       Start("min_odd_cycle_cover", g, {}, w, coverset0, {}, {}, "violate")

InitVertexCoverFast ==
    \E n \in 0..MaxNodes : \E g \in SimpleGraphs(n) :
    \E w \in Weights(0..(n - 1)) : \E coverset0 \in SUBSET (0..(n - 1)) :
       Start("min_vertex_cover_fast", g, {}, w, coverset0, {}, Edges(g),
             "min_vertex_cover_fast")

\* min_maximal_independant_set(ugraph, weight, indset, dep)
InitIndependantSet ==
    \E n \in 0..MaxNodes : \E g \in SimpleGraphs(n) :
    \E w \in Weights(0..(n - 1)) :
    \E indset0 \in SUBSET (0..(n - 1)) : \E d0 \in SUBSET (0..(n - 1)) :
       Start("min_maximal_independant_set", g, {}, w, indset0, d0, 0..(n - 1),
             "min_maximal_independant_set")

\* The same call with an empty dependency set.
InitIndependantSetNoDep ==
    \E n \in 0..MaxNodes : \E g \in SimpleGraphs(n) :
    \E w \in Weights(0..(n - 1)) : \E indset0 \in SUBSET (0..(n - 1)) :
       Start("min_maximal_independant_set", g, {}, w, indset0, {}, 0..(n - 1),
             "min_maximal_independant_set")

InitHyperVertexCover ==
    \E g \in Netlists : \E w \in Weights(Modules) : \E coverset0 \in SUBSET Modules :
       Start("min_hyper_vertex_cover", g, NetIds, w, coverset0, {}, {}, "violate")

InitNetCover ==
    \E g \in Netlists : \E w \in Weights(Modules) : \E coverset0 \in SUBSET Modules :
       Start("netlist_min_vertex_cover", g, NetIds, w, coverset0, {}, NetIds,
             "netlist_min_vertex_cover")

\* min_maximal_matching(hyprgraph, weight, matchset, dep) on a small netlist
InitMatching ==
    \E g \in Netlists : \E w \in Weights(NetIds) : \E matchset0 \in SUBSET NetIds :
       Start("min_maximal_matching", g, NetIds, w, matchset0, {}, NetIds,
             "min_maximal_matching")

\* min_maximal_matching(hyprgraph, weight): the overload with empty sets, on the
\* netlists of the frame
InitMatchingFrame ==
    \E m1 \in CutShort(MatchingFrame[1]) : \E m2 \in CutShort(MatchingFrame[2]) :
    \E m3 \in CutShort(MatchingFrame[3]) : \E m4 \in CutShort(MatchingFrame[4]) :
    \E m5 \in CutShort(MatchingFrame[5]) : \E w \in Weights(FrameNetIds) :
       Start("min_maximal_matching", FrameNetlist(<<m1, m2, m3, m4, m5>>),
             FrameNetIds, w, {}, {}, FrameNetIds, "min_maximal_matching")

-----------------------------------------------------------------------------
\* Specifications

\* The functions that end with assert(total_dual_cost <= total_prml_cost):
\* pd_cover under its four producers, min_vertex_cover_fast and
\* min_maximal_independant_set.
Init ==
    \/ InitVertexCover
    \/ InitHyperVertexCover
    \/ InitCycleCover
    \/ InitOddCycleCover
    \/ InitVertexCoverFast
    \/ InitIndependantSet

Next ==
    \/ Violate
    \/ PdCoverStep
    \/ PdCoverReturn
    \/ ViolateCycle
    \/ BfsSource
    \/ BfsVisit
    \/ BfsNoCycle
    \/ ConstructStart
    \/ ConstructUp
    \/ ConstructMeet
    \/ FastStep
    \/ FastReturn
    \/ MisStep
    \/ MisReturn

Spec == Init /\ [][Next]_vars

\* min_vertex_cover of cover.hpp
NextVertexCover == Violate \/ PdCoverStep \/ PdCoverReturn
SpecVertexCover == InitVertexCover /\ [][NextVertexCover]_vars

\* min_vertex_cover_fast
NextFast == FastStep \/ FastReturn
SpecFast == InitVertexCoverFast /\ [][NextFast]_vars

\* min_maximal_independant_set, dep empty
NextMis == MisStep \/ MisReturn
SpecMis == InitIndependantSetNoDep /\ [][NextMis]_vars

\* graph_algo.hpp: both functions
InitGraphAlgo == InitVertexCoverFast \/ InitIndependantSetNoDep
NextGraphAlgo == FastStep \/ FastReturn \/ MisStep \/ MisReturn
SpecGraphAlgo == InitGraphAlgo /\ [][NextGraphAlgo]_vars

\* The two hypergraph vertex covers
InitHyper == InitHyperVertexCover \/ InitNetCover
NextHyper ==
    \/ Violate
    \/ PdCoverStep
    \/ PdCoverReturn
    \/ NetCoverStep
    \/ NetCoverReturn
SpecHyper == InitHyper /\ [][NextHyper]_vars

\* min_maximal_matching
InitMatchingCalls == InitMatching \/ InitMatchingFrame
NextMatching == MatchStep \/ MatchReturn
SpecMatching == InitMatchingCalls /\ [][NextMatching]_vars

\* min_cycle_cover / min_odd_cycle_cover on the graphs of up to MaxCycleNodes nodes
CycleCovers == {"min_cycle_cover", "min_odd_cycle_cover"}

InitCycleCalls ==
    \E a \in CycleCovers : \E n \in 0..MaxCycleNodes : \E g \in SimpleGraphs(n) :
    \E w \in Weights(0..(n - 1)) : \E coverset0 \in SUBSET (0..(n - 1)) :
       Start(a, g, {}, w, coverset0, {}, {}, "violate")

\* The largest graph the cycle covers are called with in SpecCycle: a square
\* 0-1-3-2 with the triangle 1-3-4 on one of its sides.  The other graphs on five
\* nodes leave edges of this one out.
CycleFrame == {{0, 1}, {0, 2}, {1, 3}, {2, 3}, {1, 4}, {3, 4}}
FrameNodes == UNION CycleFrame

InitCycleFrame ==
    \E a \in CycleCovers : \E E \in SUBSET CycleFrame : \E w \in Weights(FrameNodes) :
       Start(a, GraphOf(FrameNodes, E), {}, w, {}, {}, {}, "violate")

InitCycle == InitCycleCalls \/ InitCycleFrame
NextCycle ==
    \/ ViolateCycle
    \/ BfsSource
    \/ BfsVisit
    \/ BfsNoCycle
    \/ ConstructStart
    \/ ConstructUp
    \/ ConstructMeet
    \/ PdCoverStep
    \/ PdCoverReturn
SpecCycle == InitCycle /\ [][NextCycle]_vars

\* The covers of cover.hpp and graph_algo.hpp that keep a gap per node:
\* min_vertex_cover, min_hyper_vertex_cover, min_vertex_cover_fast
InitCovers == InitVertexCover \/ InitHyperVertexCover \/ InitVertexCoverFast
NextCovers ==
    \/ Violate
    \/ PdCoverStep
    \/ PdCoverReturn
    \/ FastStep
    \/ FastReturn
SpecCovers == InitCovers /\ [][NextCovers]_vars

\* The overloads without pre-existing sets, on a plain graph:
\* min_vertex_cover(ugraph, weight), min_cycle_cover, min_odd_cycle_cover,
\* min_vertex_cover_fast and min_maximal_independant_set
InitFromEmpty ==
    \E n \in 0..MaxNodes : \E g \in SimpleGraphs(n) : \E w \in Weights(0..(n - 1)) :
       \/ Start("min_vertex_cover", g, {}, w, {}, {}, {}, "violate")
       \/ Start("min_cycle_cover", g, {}, w, {}, {}, {}, "violate")
       \/ Start("min_odd_cycle_cover", g, {}, w, {}, {}, {}, "violate")
       \/ Start("min_vertex_cover_fast", g, {}, w, {}, {}, Edges(g),
                "min_vertex_cover_fast")
       \/ Start("min_maximal_independant_set", g, {}, w, {}, {}, 0..(n - 1),
                "min_maximal_independant_set")
SpecFromEmpty == InitFromEmpty /\ [][Next]_vars

\* The caller of the test "Both Algorithms": after min_vertex_cover_fast(ugraph,
\* weight) has returned, min_maximal_independant_set(ugraph, weight) is called on
\* the same graph and weight map, with fresh empty sets.
CallIndependantSet ==
    /\ pc = "done"
    /\ alg = "min_vertex_cover_fast"
    /\ soln0 = {}
    /\ cover_set' = soln
    /\ alg' = "min_maximal_independant_set"
    /\ gap' = weight
    /\ soln' = {}
    /\ dep' = {}
    /\ total_prml_cost' = 0
    /\ total_dual_cost' = 0
    /\ todo' = DOMAIN gr
    /\ prml_added' = <<>>
    /\ pc' = "min_maximal_independant_set"
    /\ UNCHANGED <<search, gr, nets, weight, violate_sets, soln0, dep0>>

InitBoth ==
    \E n \in 0..MaxNodes : \E g \in SimpleGraphs(n) : \E w \in Weights(0..(n - 1)) :
       Start("min_vertex_cover_fast", g, {}, w, {}, {}, Edges(g),
             "min_vertex_cover_fast")
NextBoth ==
    \/ FastStep
    \/ FastReturn
    \/ CallIndependantSet
    \/ MisStep
    \/ MisReturn
SpecBoth == InitBoth /\ [][NextBoth]_vars

\* min_vertex_cover(ugraph, weight) and min_vertex_cover_fast(ugraph, weight) with
\* a weight map that has entries for some of the nodes only.
InitMissingKey ==
    \E n \in 0..MaxNodes : \E g \in SimpleGraphs(n) :
    \E K \in SUBSET (0..(n - 1)) : \E w \in Weights(K) :
       \/ Start("min_vertex_cover", g, {}, w, {}, {}, {}, "violate")
       \/ Start("min_vertex_cover_fast", g, {}, w, {}, {}, Edges(g),
                "min_vertex_cover_fast")
SpecMissingKey == InitMissingKey /\ [][NextCovers]_vars

\* Every function, run to its end: each loop iteration that can be taken is
\* eventually taken (a call runs on its own; nothing else is scheduled).
InitAll ==
    \/ Init
    \/ InitNetCover
    \/ InitMatching
    \/ InitCycleFrame
NextAll ==
    \/ Next
    \/ NetCoverStep
    \/ NetCoverReturn
    \/ MatchStep
    \/ MatchReturn
SpecTerminates == InitAll /\ [][NextAll]_vars /\ WF_vars(NextAll)

\* The cycle covers on a square 1-2-4-3 that hangs on the tail 0-1, and on the
\* graphs that leave edges of it out: the search starts at node 0, off the cycle.
TailFrame == {{0, 1}, {1, 2}, {1, 3}, {2, 4}, {3, 4}}
TailNodes == UNION TailFrame
InitCycleTail ==
    \E a \in CycleCovers : \E E \in SUBSET TailFrame : \E w \in Weights(TailNodes) :
       Start(a, GraphOf(TailNodes, E), {}, w, {}, {}, {}, "violate")
SpecCycleTail == InitCycleTail /\ [][NextCycle]_vars

-----------------------------------------------------------------------------
\* Properties

Returned == pc = "done"
FromEmptySets == soln0 = {} /\ dep0 = {}
Independent(S) == \A u \in S : \A v \in S : v \notin gr[u]
\* The weight of a set of vertices.
RECURSIVE SumOver(_, _)
SumOver(S, f) ==
    IF S = {} THEN 0
    ELSE LET x == CHOOSE y \in S : TRUE IN f[x] + SumOver(S \ {x}, f)
NoDuplicates(s) == \A i \in 1..Len(s) : \A j \in 1..Len(s) : s[i] = s[j] => i = j

\* C1: after min_vertex_cover (cover.hpp) returns, whatever the graph, the
\* non-negative weights and the pre-seeded cover set, every edge of the graph has
\* an endpoint in the returned cover set.
C1_VertexCoverFeasible ==
    (alg = "min_vertex_cover" /\ Returned) =>
        \A e \in Edges(gr) : e \cap soln # {}

\* A call on a graph with at least two edges returned after two insertions.
C1_Witness ==
    /\ alg = "min_vertex_cover"
    /\ Returned
    /\ Cardinality(Edges(gr)) >= 2
    /\ Len(prml_added) >= 2

\* C2: after the single pass of min_vertex_cover_fast, whatever the graph, the
\* non-negative weights and the pre-seeded cover set, every edge has an endpoint
\* in the returned cover set.
C2_FastCoverFeasible ==
    (alg = "min_vertex_cover_fast" /\ Returned) =>
        \A e \in Edges(gr) : e \cap soln # {}

\* A call with a pre-seeded cover set that skipped an edge and extended the set.
C2_Witness ==
    /\ alg = "min_vertex_cover_fast"
    /\ Returned
    /\ soln0 # {}
    /\ prml_added # <<>>
    /\ \E e \in Edges(gr) : e \cap soln0 # {}

\* C3: after min_hyper_vertex_cover (cover.hpp) and after min_vertex_cover
\* (netlist_algo.hpp) return, every net with at least one member has a member
\* in the cover set.
C3_HyperCoverFeasible ==
    (alg \in {"min_hyper_vertex_cover", "netlist_min_vertex_cover"} /\ Returned) =>
        \A net \in nets : gr[net] # {} => gr[net] \cap soln # {}

\* A call on a netlist without empty nets returned after adding two modules.
C3_Witness ==
    /\ alg \in {"min_hyper_vertex_cover", "netlist_min_vertex_cover"}
    /\ Returned
    /\ \A net \in nets : gr[net] # {}
    /\ Cardinality(Range(prml_added)) >= 2

\* C4: the closing assertion total_dual_cost <= total_prml_cost never fails in
\* pd_cover (under min_vertex_cover, min_hyper_vertex_cover, min_cycle_cover and
\* min_odd_cycle_cover), in min_vertex_cover_fast and in
\* min_maximal_independant_set, with non-negative weights and any pre-seeded sets.
C4_AssertionHolds == pc # "assert_failed"

\* A cycle cover found a cycle, paid a positive dual cost for it and passed the
\* assertion.
C4_Witness ==
    /\ Returned
    /\ alg \in {"min_cycle_cover", "min_odd_cycle_cover"}
    /\ 0 < total_dual_cost
    /\ total_dual_cost <= total_prml_cost
    /\ prml_added # <<>>

\* C5: when min_maximal_matching finishes from an empty matchset and an empty
\* dep, total_dual_cost <= total_primal_cost (the assertion commented out at
\* the end of the function would hold).
C5_MatchingDualBelowPrimal ==
    (alg = "min_maximal_matching" /\ Returned /\ FromEmptySets) =>
        total_dual_cost <= total_prml_cost

\* C6: the set returned by min_maximal_independant_set started from an empty
\* indset and an empty dep is pairwise non-adjacent.
C6_IndependentFromEmpty ==
    (alg = "min_maximal_independant_set" /\ FromEmptySets) => Independent(soln)

\* A call from empty sets on a graph with edges returned two or more nodes.
C6_Witness ==
    /\ alg = "min_maximal_independant_set"
    /\ Returned
    /\ FromEmptySets
    /\ Edges(gr) # {}
    /\ Cardinality(soln) >= 2

\* C7: after min_maximal_independant_set started from an empty indset and an
\* empty dep returns, every node outside the returned set has a neighbour in it.
C7_MaximalFromEmpty ==
    (alg = "min_maximal_independant_set" /\ Returned /\ FromEmptySets) =>
        \A u \in DOMAIN gr : u \notin soln => gr[u] \cap soln # {}

\* A call from empty sets returned with two nodes left out of the set.
C7_Witness ==
    /\ alg = "min_maximal_independant_set"
    /\ Returned
    /\ FromEmptySets
    /\ Cardinality(DOMAIN gr \ soln) >= 2

\* C8: min_maximal_independant_set called with a pairwise non-adjacent indset and
\* an empty dep keeps the pre-selected nodes and returns a pairwise non-adjacent
\* set: no neighbour of a pre-selected node is added.
C8_PreSeededStaysIndependent ==
    (alg = "min_maximal_independant_set" /\ dep0 = {} /\ Independent(soln0)) =>
        (soln0 \subseteq soln /\ Independent(soln))

\* C9: for an initially empty cover set, the cost min_vertex_cover (cover.hpp)
\* returns is the sum of weight[v] over the vertices of the returned cover set.
C9_CostIsCoverWeight ==
    (alg = "min_vertex_cover" /\ Returned /\ soln0 = {}) =>
        total_prml_cost = SumOver(soln, weight)

\* C10: min_vertex_cover_fast (any pre-seeded cover set) and
\* min_maximal_independant_set (from empty sets) insert each vertex at most
\* once, and the cost is the sum of weight[v] over the vertices added in the call.
C10_EachVertexAddedOnce ==
    (\/ alg = "min_vertex_cover_fast"
     \/ (alg = "min_maximal_independant_set" /\ FromEmptySets)) =>
        /\ NoDuplicates(prml_added)
        /\ Range(prml_added) \cap soln0 = {}
        /\ soln = soln0 \cup Range(prml_added)
        /\ total_prml_cost = SumOver(soln \ soln0, weight)

\* A fast cover returned after adding two vertices of positive weight.
C10_Witness ==
    /\ alg = "min_vertex_cover_fast"
    /\ Returned
    /\ Len(prml_added) >= 2
    /\ \A v \in Range(prml_added) : weight[v] > 0

\* The part of the graph g outside the node set X holds a cycle: some non-empty
\* set of its nodes gives every member two neighbours in the set.
HasCycle(g, X) ==
    \E S \in SUBSET (DOMAIN g \ X) :
        S # {} /\ \A v \in S : Cardinality(g[v] \cap S) >= 2

\* The part of g outside X holds a cycle of odd length: it has no 2-colouring.
HasOddCycle(g, X) ==
    LET V == DOMAIN g \ X
    IN  \A A \in SUBSET V :
            \E u \in V : \E v \in g[u] \cap V : (u \in A) = (v \in A)

\* The BFS tree of an info table: the path from x to the root, the lowest common
\* ancestor of two nodes, and the cycle an edge a-b closes with the tree paths.
RECURSIVE PathToRoot(_, _)
PathToRoot(inf, x) ==
    IF inf[x].parent = x THEN <<x>> ELSE <<x>> \o PathToRoot(inf, inf[x].parent)
IndexOf(s, x) == CHOOSE i \in 1..Len(s) : s[i] = x
LowestCommonAncestor(inf, a, b) ==
    LET pa == PathToRoot(inf, a)
        pb == PathToRoot(inf, b)
        i == CHOOSE k \in 1..Len(pa) :
                 pa[k] \in Range(pb) /\ \A j \in 1..(k - 1) : pa[j] \notin Range(pb)
    IN  pa[i]
TreeCycle(inf, a, b) ==
    LET lca == LowestCommonAncestor(inf, a, b)
        pa == PathToRoot(inf, a)
        pb == PathToRoot(inf, b)
    IN  {pa[i] : i \in 1..IndexOf(pa, lca)} \cup {pb[i] : i \in 1..IndexOf(pb, lca)}
WitnessFound == witness # <<>> /\ pc # "cycle_found"
CycleBuilt == cycle # <<>> /\ pc \in {"pd_cover", "done", "assert_failed"}

\* C11: after min_cycle_cover returns, the nodes outside the returned cover set
\* induce a subgraph without a cycle, for every finite simple graph.
C11_ResultIsCycleCover ==
    (alg = "min_cycle_cover" /\ Returned) => ~HasCycle(gr, soln)

\* C12: whenever the nodes outside the initial cover set induce a subgraph with a
\* cycle, min_cycle_cover adds at least one node to the cover set and returns a
\* cost of at least that node's weight.
C12_CycleGetsANode ==
    (alg = "min_cycle_cover" /\ Returned /\ HasCycle(gr, soln0)) =>
        \E v \in soln \ soln0 : total_prml_cost >= weight[v]

\* A cycle cover called with a pre-seeded set that left a cycle returned.
C12_Witness ==
    /\ alg = "min_cycle_cover"
    /\ Returned
    /\ soln0 # {}
    /\ HasCycle(gr, soln0)
    /\ soln # soln0

\* C13: whenever the nodes outside the initial cover set induce a subgraph with an
\* odd cycle, min_odd_cycle_cover adds at least one node to the cover set and
\* returns a cost of at least that node's weight.
C13_OddCycleGetsANode ==
    (alg = "min_odd_cycle_cover" /\ Returned /\ HasOddCycle(gr, soln0)) =>
        \E v \in soln \ soln0 : total_prml_cost >= weight[v]

\* C14: for every witness of _generic_bfs_cycle, _construct_cycle returns the cycle
\* closed by the edge parent-child as a simple ordered sequence: it holds both
\* endpoints and their lowest common ancestor, no node twice, and consecutive
\* nodes (and the last and the first) are adjacent.
C14_ConstructedCycleIsSimple ==
    CycleBuilt =>
        /\ witness[1] \in Range(cycle)
        /\ witness[2] \in Range(cycle)
        /\ LowestCommonAncestor(info, witness[1], witness[2]) \in Range(cycle)
        /\ NoDuplicates(cycle)
        /\ \A i \in 1..(Len(cycle) - 1) : cycle[i + 1] \in gr[cycle[i]]
        /\ cycle[1] \in gr[cycle[Len(cycle)]]

\* C15: min_odd_cycle_cover passes a BFS witness on as a violating set if and only
\* if the cycle formed by the closing edge and the two tree paths to the
\* endpoints' lowest common ancestor has odd length; an even one yields no set.
C15_AcceptsExactlyOddCycles ==
    (alg = "min_odd_cycle_cover" /\ WitnessFound) =>
        ((pc \in {"construct_up", "construct_meet"} \/ cycle # <<>>)
            <=> Cardinality(TreeCycle(info, witness[1], witness[2])) % 2 = 1)

\* An odd-cycle cover returned after it turned down the witness of a square.
C15_Witness ==
    /\ alg = "min_odd_cycle_cover"
    /\ Returned
    /\ WitnessFound
    /\ cycle = <<>>
    /\ Cardinality(TreeCycle(info, witness[1], witness[2])) = 4

GapCovers == {"min_vertex_cover", "min_hyper_vertex_cover", "min_vertex_cover_fast"}
GapsDoNotGrow == \A x \in DOMAIN gap : gap'[x] <= gap[x]
GapsWithinWeights == \A x \in DOMAIN gap : 0 <= gap[x] /\ gap[x] <= weight[x]

\* C16: during min_vertex_cover, min_hyper_vertex_cover (cover.hpp) and
\* min_vertex_cover_fast with non-negative weights, after every step each gap is
\* within 0 <= gap[x] <= weight[x], and no gap ever increases.
C16_CoverGapsShrinkWithinWeights ==
    /\ [](alg \in GapCovers => GapsWithinWeights)
    /\ [][(alg \in GapCovers) => GapsDoNotGrow]_vars

\* A cover returned with a gap that was lowered and is still positive.
C16_Witness ==
    /\ alg \in GapCovers
    /\ Returned
    /\ \E x \in DOMAIN gap : 0 < gap[x] /\ gap[x] < weight[x]

\* C17: during min_maximal_independant_set with non-negative weights, the gap of
\* every node, dependent or not, stays within 0 <= gap[x] <= weight[x]; the
\* subtraction over the neighbours never drives a gap below zero.
C17_IndependantSetGapsWithinWeights ==
    alg = "min_maximal_independant_set" => GapsWithinWeights

\* C18: on a graph without edges (the graph without nodes included), started from
\* empty sets, min_vertex_cover, min_vertex_cover_fast, min_cycle_cover and
\* min_odd_cycle_cover return an empty set and cost 0 without faulting, and
\* min_maximal_independant_set returns all nodes and the sum of their weights.
C18_EdgelessGraph ==
    (Edges(gr) = {} /\ FromEmptySets) =>
        /\ pc \notin {"fault", "assert_failed"}
        /\ Returned =>
             IF alg = "min_maximal_independant_set"
             THEN soln = DOMAIN gr /\ total_prml_cost = SumOver(DOMAIN gr, weight)
             ELSE soln = {} /\ total_prml_cost = 0

\* The independent set of an edgeless graph of several nodes was returned.
C18_Witness ==
    /\ alg = "min_maximal_independant_set"
    /\ Returned
    /\ FromEmptySets
    /\ Edges(gr) = {}
    /\ Cardinality(DOMAIN gr) >= 2
    /\ total_prml_cost > 0

C20_MissingKeyFaults ==
    [][(pc' # "fault") =>
          (DOMAIN gap' = DOMAIN gap /\ DOMAIN weight' = DOMAIN weight)]_vars

\* The call has ended: it returned, its closing assertion aborted it, or it
\* faulted.
Ended == pc \in {"done", "assert_failed", "fault"}

\* C21: every call of every algorithm ends; in particular the BFS queue loop and
\* the two parent-chain loops of _construct_cycle are left.
C21_EveryCallEnds == <>Ended

\* A cycle cover has returned after a search whose reconstruction ran both loops:
\* the depth equalisation (the witness ends lay at different depths) and the
\* lock-step walk.
C21_Witness ==
    /\ Returned
    /\ alg \in CycleCovers
    /\ Len(witness) = 2
    /\ info[witness[1]].depth # info[witness[2]].depth
    /\ Len(cycle) >= 4

\* C22: a call of min_cycle_cover or min_odd_cycle_cover starts the search once,
\* the search hands pd_cover at most one violate set (one witness), and the call
\* adds at most one node to the cover set, whatever cycles the graph has.
C22_OneSearchOneNode ==
    /\ [](alg \in CycleCovers =>
            /\ Cardinality(DOMAIN violate_sets) <= 1
            /\ Len(prml_added) <= 1
            /\ Cardinality(soln \ soln0) <= 1)
    /\ [][(alg \in CycleCovers /\ pc # "violate") => pc' # "violate"]_vars

\* The call returned with one node added while a cycle is left outside the cover.
C22_Witness ==
    /\ Returned
    /\ alg \in CycleCovers
    /\ Len(prml_added) = 1
    /\ HasCycle(gr, soln)

\* The first member of S, in S's order, whose gap is the least of S.
FirstMinimal(S, g) ==
    LET i == CHOOSE k \in 1..Len(S) :
                 /\ \A j \in 1..Len(S) : g[S[k]] <= g[S[j]]
                 /\ \A j \in 1..(k - 1) : g[S[j]] > g[S[k]]
    IN  S[i]

\* The violate set that a step of pd_cover's loop took off the list.
Processed == DOMAIN violate_sets \ DOMAIN violate_sets'

\* C23: pd_cover skips an empty violate set; of a non-empty set S without
\* duplicates it inserts the first member v of least gap, adds weight[v] to the
\* primal and delta = gap[v] to the dual cost and takes delta off the gap of every
\* member of S, which leaves gap[v] = 0; nothing else changes.
C23_PdCoverIteration ==
    [][(pc = "pd_cover" /\ Processed # {}) =>
         \E id \in Processed : \E S \in violate_sets[id] :
            /\ S = <<>> =>
                  UNCHANGED <<soln, gap, total_prml_cost, total_dual_cost>>
            /\ (S # <<>> /\ NoDuplicates(S)) =>
                  LET v == FirstMinimal(S, gap)
                      delta == gap[v]
                  IN  /\ soln' = soln \cup {v}
                      /\ total_prml_cost' = total_prml_cost + weight[v]
                      /\ total_dual_cost' = total_dual_cost + delta
                      /\ gap' = [x \in DOMAIN gap |->
                                   IF x \in Range(S) THEN gap[x] - delta ELSE gap[x]]
                      /\ gap'[v] = 0
                      /\ Len(S) = 1 => v = S[1]]_vars

\* pd_cover has processed a set with more than one member: the inserted node paid
\* a positive gap, is left with gap 0, and another node's gap went down with it.
C23_Witness ==
    /\ pc = "pd_cover"
    /\ prml_added # <<>>
    /\ LET v == prml_added[Len(prml_added)]
       IN  /\ gap[v] = 0
           /\ weight[v] > 0
           /\ total_dual_cost > 0
           /\ \E x \in DOMAIN gap \ {v} : gap[x] < weight[x]

\* C24: in min_vertex_cover every edge that pd_cover processes has both endpoints
\* outside the cover set when it is processed; an edge that a vertex selected
\* earlier in the call covers is not processed.
C24_ProcessedEdgesAreUncovered ==
    [][(alg = "min_vertex_cover" /\ pc = "pd_cover") =>
          \A edge \in Processed : edge \cap soln = {}]_vars

\* C25: from an empty matchset and dep, the nets min_maximal_matching selects are
\* a maximal matching: no two selected nets share a member, and every net that
\* has a member and was not selected shares a member with a selected net.
C25_MaximalMatching ==
    (alg = "min_maximal_matching" /\ Returned /\ FromEmptySets) =>
        /\ \A a \in soln : \A b \in soln \ {a} : gr[a] \cap gr[b] = {}
        /\ \A net \in nets \ soln :
              gr[net] # {} => \E s \in soln : gr[net] \cap gr[s] # {}

\* A call from empty sets returned two selected nets and left out a net that
\* has members.
C25_Witness ==
    /\ alg = "min_maximal_matching"
    /\ Returned
    /\ FromEmptySets
    /\ Cardinality(soln) >= 2
    /\ \E net \in nets \ soln : gr[net] # {}

\* The nets met through the members of net, net itself included.
ReachableNets(net) == {net} \cup UNION {gr[v] : v \in gr[net]}

\* C26: when min_maximal_matching selects a net other than the net under
\* consideration, the gap of every net reachable through that net's members, the
\* net itself included, goes down by the selected gap value once, however many
\* members it shares; every other gap stays.
C26_GapsDecreaseOnce ==
    [][(alg = "min_maximal_matching" /\ prml_added' # prml_added) =>
          LET net == Min(todo)
              min_net == prml_added'[Len(prml_added')]
              min_val == gap[min_net]
          IN  min_net # net =>
                 gap' = [x \in DOMAIN gap |->
                            IF x \in ReachableNets(net) THEN gap[x] - min_val
                            ELSE gap[x]]]_vars

\* Node v lies on a cycle of the part of g outside X: some set of those nodes
\* holds v and gives each member exactly two neighbours in the set.
OnCycle(g, X, v) ==
    \E S \in SUBSET (DOMAIN g \ X) :
        v \in S /\ \A u \in S : Cardinality(g[u] \cap S) = 2

\* C27: every member of the violate set that min_cycle_cover or
\* min_odd_cycle_cover hands to pd_cover is a node of the witnessed cycle, and the
\* node the call adds lies on a cycle of the nodes that were uncovered before.
C27_ViolateSetIsTheCycle ==
    (alg \in CycleCovers /\ CycleBuilt) =>
        /\ Range(cycle) \subseteq TreeCycle(info, witness[1], witness[2])
        /\ \A i \in 1..Len(prml_added) : OnCycle(gr, soln0, prml_added[i])

\* C28: in every BFSInfo table of _generic_bfs_cycle the search source is its own
\* parent and has depth number_of_nodes, every other recorded node has a recorded
\* parent and a depth one less than its parent's, every depth is at least 1, and
\* no node of the cover set is recorded.
C28_InfoTableIsATree ==
    alg \in CycleCovers =>
        /\ DOMAIN info # {} =>
              Cardinality({x \in DOMAIN info : info[x].parent = x}) = 1
        /\ \A x \in DOMAIN info :
              LET p == info[x].parent
              IN  /\ p = x => info[x].depth = Cardinality(DOMAIN gr)
                  /\ p # x => p \in DOMAIN info /\ info[x].depth = info[p].depth - 1
                  /\ info[x].depth >= 1
                  /\ x \notin soln0
                  /\ pc \in {"bfs", "cycle_found"} => x \notin soln

\* A search around a pre-seeded cover set has recorded three nodes, one of
\* them two levels below the source.
C28_Witness ==
    /\ alg \in CycleCovers
    /\ pc = "bfs"
    /\ soln0 # {}
    /\ Cardinality(DOMAIN info) >= 3
    /\ \E x \in DOMAIN info : info[x].depth = Cardinality(DOMAIN gr) - 2

\* What has been taken off the gap of node x so far.
Charged == [x \in DOMAIN gap |-> weight[x] - gap[x]]

\* C29: at every point of min_vertex_cover_fast, for non-negative weights and any
\* pre-seeded cover set, total_prml_cost <= 2 * total_dual_cost: the weight of an
\* inserted vertex is what the processed edges at it charged, the primal cost is
\* the sum of those weights, and every dual amount is charged to the two
\* endpoints of its edge.
C29_PrimalWithinTwiceDual ==
    alg = "min_vertex_cover_fast" =>
        /\ total_prml_cost <= 2 * total_dual_cost
        /\ \A v \in Range(prml_added) : Charged[v] = weight[v]
        /\ total_prml_cost = SumOver(Range(prml_added), weight)
        /\ SumOver(DOMAIN gap, Charged) = 2 * total_dual_cost

\* The pass has inserted two vertices and the bound is met with equality.
C29_Witness ==
    /\ alg = "min_vertex_cover_fast"
    /\ Len(prml_added) = 2
    /\ total_dual_cost > 0
    /\ total_prml_cost = 2 * total_dual_cost

====
